---- MODULE Spec2Model ----
(***************************************************************************)
(* HR analytics dashboard: the CSV record parser, the six analytics        *)
(* operations (lib/data.ts, the copy with the category mapping) and the    *)
(* Dashboard component's load lifecycle.                                   *)
(*                                                                         *)
(* Strings are sequences of symbols.  A symbol is one character the code   *)
(* looks at (newline, carriage return, comma, double quote, space, BOM,    *)
(* minus sign, a digit) or a word: a run of letters that the code only     *)
(* ever copies and compares as a whole ("EmpID", "Exceeds", "Active").     *)
(* JavaScript values are records [t, n, d, s]: t is the type tag, n/d the  *)
(* numerator and denominator of a number, s the symbols of a string.       *)
(***************************************************************************)
EXTENDS Integers, Sequences, FiniteSets, TLC

VARIABLES
    csvText,    \* the text handed to parseCSV / the body the server sends
    employees,  \* Employee[]: the parsed record sequence (React state in Dashboard)
    pc,         \* position of the running operation / of fetchData
    loading,    \* Dashboard state: useState(true)
    error,      \* Dashboard state: useState<string | null>(null)
    response,   \* the settled fetch: "none", "rejected", "ok", "notok"
    limit,      \* the limit argument of getTopPerformers
    result      \* what the last operation returned, or that it threw

vars == <<csvText, employees, pc, loading, error, response, limit, result>>

----------------------------------------------------------------------------
(* JavaScript values *)

Null == [t |-> "null", n |-> 0, d |-> 1, s |-> <<>>]
Undefined == [t |-> "undefined", n |-> 0, d |-> 1, s |-> <<>>]
NaN == [t |-> "nan", n |-> 0, d |-> 1, s |-> <<>>]
\* a value that stands for "this evaluation threw a TypeError"
Threw == [t |-> "threw", n |-> 0, d |-> 1, s |-> <<>>]
Str(q) == [t |-> "string", n |-> 0, d |-> 1, s |-> q]
EmptyStr == Str(<<>>)
\* a function object, with the text it converts to
Function(name) ==
    [t |-> "function", n |-> 0, d |-> 1,
     s |-> <<"function ", name, "() { [native code] }">>]

RECURSIVE Gcd(_, _)
Gcd(a, b) == IF b = 0 THEN a ELSE Gcd(b, a % b)
Abs(a) == IF a < 0 THEN -a ELSE a

\* the number a/b (b > 0), in lowest terms
Rat(a, b) ==
    LET g == Gcd(Abs(a), b)
    IN  [t |-> "number", n |-> a \div g, d |-> b \div g, s |-> <<>>]
Num(k) == [t |-> "number", n |-> k, d |-> 1, s |-> <<>>]

IsNum(v) == v.t = "number"
IsStr(v) == v.t = "string"
IsFinite(v) == v.t = "number"

\* ToBoolean: null, undefined, NaN, 0 and "" are falsy
Truthy(v) ==
    CASE v.t = "number" -> v.n # 0
      [] v.t = "string" -> v.s # <<>>
      [] v.t = "function" -> TRUE
      [] OTHER -> FALSE

\* ToString of a number, a string or a function
ToText(v) ==
    CASE v.t = "number" ->
             IF v.d = 1 THEN <<ToString(v.n)>> ELSE <<ToString(v.n), "/", ToString(v.d)>>
      [] v.t \in {"string", "function"} -> v.s
      [] OTHER -> <<v.t>>

\* a || b
OrElse(a, b) == IF Truthy(a) THEN a ELSE b

\* a + b: the sum of two numbers (NaN is contagious), the concatenated text
\* as soon as an operand is a string or a function
JSAdd(a, b) ==
    IF IsNum(a) /\ IsNum(b) THEN Rat(a.n * b.d + b.n * a.d, a.d * b.d)
    ELSE IF {a.t, b.t} \cap {"string", "function"} # {}
         THEN Str(ToText(a) \o ToText(b))
         ELSE NaN

\* a / b on numbers; x/0 is NaN for x = 0 and an infinity otherwise
JSDiv(a, b) ==
    IF ~(IsNum(a) /\ IsNum(b)) THEN NaN
    ELSE IF b.n = 0
         THEN IF a.n = 0 THEN NaN
              ELSE [t |-> "infinity", n |-> (IF a.n > 0 THEN 1 ELSE -1), d |-> 1, s |-> <<>>]
         ELSE IF b.n > 0 THEN Rat(a.n * b.d, a.d * b.n)
              ELSE Rat(-(a.n * b.d), a.d * (-b.n))

JSMul(a, b) ==
    IF IsNum(a) /\ IsNum(b) THEN Rat(a.n * b.n, a.d * b.d) ELSE NaN

JSSub(a, b) ==
    IF IsNum(a) /\ IsNum(b) THEN Rat(a.n * b.d - b.n * a.d, a.d * b.d) ELSE NaN

\* a > b and a >= b: false as soon as an operand is NaN; null converts to 0
ToNumber(v) == IF v.t = "null" THEN Num(0) ELSE v
JSGt(a, b) ==
    LET x == ToNumber(a) y == ToNumber(b)
    IN  IsNum(x) /\ IsNum(y) /\ x.n * y.d > y.n * x.d
JSGe(a, b) ==
    LET x == ToNumber(a) y == ToNumber(b)
    IN  IsNum(x) /\ IsNum(y) /\ x.n * y.d >= y.n * x.d

\* Math.max(a, b): NaN if either is NaN
MathMax(a, b) ==
    IF ~(IsNum(a) /\ IsNum(b)) THEN NaN
    ELSE IF JSGe(a, b) THEN a ELSE b

----------------------------------------------------------------------------
(* Strings *)

NL == "\n"
CR == "\r"
COMMA == ","
QUOTE == "\""
SP == " "
BOM == "BOM"
MINUS == "-"
Digits == <<"0", "1", "2", "3", "4", "5", "6", "7", "8", "9">>
DigitSet == {Digits[i] : i \in 1..10}
DigitValue(c) == (CHOOSE i \in 1..10 : Digits[i] = c) - 1

\* what String.prototype.trim strips (U+FEFF is white space in JavaScript)
WhiteSpace == {SP, NL, CR, BOM}

RECURSIVE TrimStart(_)
TrimStart(q) ==
    IF q # <<>> /\ Head(q) \in WhiteSpace THEN TrimStart(Tail(q)) ELSE q

RECURSIVE TrimEnd(_)
TrimEnd(q) ==
    IF q # <<>> /\ q[Len(q)] \in WhiteSpace
    THEN TrimEnd(SubSeq(q, 1, Len(q) - 1)) ELSE q

\* q.trim()
Trim(q) == TrimEnd(TrimStart(q))

\* q.split(sep): the pieces between the separators, always at least one piece
RECURSIVE SplitFrom(_, _, _, _)
SplitFrom(q, sep, i, current) ==
    IF i > Len(q) THEN <<current>>
    ELSE IF q[i] = sep THEN <<current>> \o SplitFrom(q, sep, i + 1, <<>>)
    ELSE SplitFrom(q, sep, i + 1, Append(current, q[i]))

Split(q, sep) == SplitFrom(q, sep, 1, <<>>)

\* h.replace(/^[\ufeff]/, ''): a BOM at the front of the header name is dropped
StripBOM(q) == IF q # <<>> /\ Head(q) = BOM THEN Tail(q) ELSE q

\* v.trim() as a method call: a TypeError unless v is a string
MethodTrim(v) == IF IsStr(v) THEN Str(Trim(v.s)) ELSE Threw

\* v?.trim(): undefined when v is null or undefined, the method call otherwise
OptionalTrimAlways(v) == MethodTrim(v)
OptionalTrim(v) ==
    IF v.t \in {"null", "undefined"} THEN Undefined ELSE MethodTrim(v)

\* a[i] with a zero-based index i: undefined outside the array
ElementAt(a, i) == IF i + 1 \in 1..Len(a) THEN Str(a[i + 1]) ELSE Undefined

\* the digits at the front of q, as a number, and how many there are
RECURSIVE DigitPrefix(_, _, _)
DigitPrefix(q, i, acc) ==
    IF i <= Len(q) /\ q[i] \in DigitSet
    THEN DigitPrefix(q, i + 1, [val |-> acc.val * 10 + DigitValue(q[i]), cnt |-> acc.cnt + 1])
    ELSE acc

\* parseFloat(q): leading white space skipped, an optional sign, then the
\* longest run of digits; NaN when no digit is there.  (The alphabet has no
\* decimal point, no exponent and no "Infinity".)
ParseFloat(q) ==
    LET r == TrimStart(q)
        neg == r # <<>> /\ Head(r) = MINUS
        body == IF neg THEN Tail(r) ELSE r
        p == DigitPrefix(body, 1, [val |-> 0, cnt |-> 0])
    IN  IF p.cnt = 0 THEN NaN ELSE Num(IF neg THEN -p.val ELSE p.val)

----------------------------------------------------------------------------
(* Record parser *)

NumericFields ==
    {<<"Age">>, <<"CurrentSalary">>, <<"Salary">>, <<"PerformanceScore">>,
     <<"GoalsAchieved">>, <<"GoalsSet">>, <<"AchievementRate">>,
     <<"OverallEngagement">>, <<"JobSatisfaction">>, <<"TenureYears">>,
     <<"EngagementSurvey">>, <<"EmpSatisfaction">>}

\* convertValue that turns the empty text of a numeric field into 0
convertValueEmptyIsZero(header, value) ==
    IF ~Truthy(value) THEN (IF header \in NumericFields THEN Num(0) ELSE Null)
    ELSE IF header \in NumericFields
         THEN LET num == ParseFloat(value.s) IN IF num = NaN THEN Null ELSE num
         ELSE value

convertValue(header, value) ==
    IF ~Truthy(value) THEN Null
    ELSE IF header \in NumericFields
         THEN LET num == ParseFloat(value.s) IN IF num = NaN THEN Null ELSE num
         ELSE value

\* parseCSVLine that splits at every comma
RECURSIVE parseCSVLineNoQuotesFrom(_, _, _, _)
parseCSVLineNoQuotesFrom(line, i, current, inQuotes) ==
    IF i > Len(line) THEN <<current>>
    ELSE LET char == line[i] IN
         IF char = QUOTE
         THEN parseCSVLineNoQuotesFrom(line, i + 1, current, ~inQuotes)
         ELSE IF char = COMMA
         THEN <<current>> \o parseCSVLineNoQuotesFrom(line, i + 1, <<>>, inQuotes)
         ELSE parseCSVLineNoQuotesFrom(line, i + 1, Append(current, char), inQuotes)

\* the loop of parseCSVLine from position i, with `current` and `inQuotes`
RECURSIVE parseCSVLineFrom(_, _, _, _)
parseCSVLineFrom(line, i, current, inQuotes) ==
    IF i > Len(line) THEN <<current>>
    ELSE LET char == line[i] IN
         IF char = QUOTE
         THEN parseCSVLineFrom(line, i + 1, current, ~inQuotes)
         ELSE IF char = COMMA /\ ~inQuotes
         THEN <<current>> \o parseCSVLineFrom(line, i + 1, <<>>, inQuotes)
         ELSE parseCSVLineFrom(line, i + 1, Append(current, char), inQuotes)

parseCSVLineNoQuotes(line) == parseCSVLineNoQuotesFrom(line, 1, <<>>, FALSE)

parseCSVLine(line) == parseCSVLineFrom(line, 1, <<>>, FALSE)

----------------------------------------------------------------------------
(* parseCSV *)

\* new Date() of calculateTenure, in days since the epoch (2024-10-04)
NowDay == 20000

\* new Date(q).getTime(), in days since the epoch: NaN (Invalid Date) for
\* text that is no date.  The date words are the only date texts in use.
DateGetTime(q) ==
    CASE q = <<"2020-10-04">> -> Num(18539)
      [] q = <<"2016-10-04">> -> Num(17078)
      [] q = <<"2999-01-01">> -> Num(375835)
      [] OTHER -> NaN

\* calculateTenure: (now - hire) / 365.25 days, floored at 0.  new Date never
\* throws, so the catch branch is never taken.
calculateTenure(hireDateStr) ==
    IF ~Truthy(hireDateStr) THEN Num(0)
    ELSE LET hireTime == DateGetTime(hireDateStr.s)
             years == JSDiv(JSSub(Num(NowDay), hireTime), Rat(1461, 4))
         IN  MathMax(Num(0), years)

\* lines of the trimmed text; split always yields a first line
csvLines(text) == Split(Trim(text), NL)

\* lines[0].split(',').map(h => h.replace(/^[\ufeff]/, '').trim())
csvHeaders(text) ==
    LET h0 == Split(csvLines(text)[1], COMMA)
    IN  [i \in 1..Len(h0) |-> Trim(StripBOM(h0[i]))]

\* values[index]?.trim() for the zero-based index
cellValue(values, index) == OptionalTrim(ElementAt(values, index))

\* rawEmployee[key] after the forEach over the headers: the last column named
\* key decides; undefined when no column has that name
rawField(headers, values, key) ==
    LET idx == {i \in 1..Len(headers) : headers[i] = key}
    IN  IF idx = {} THEN Undefined
        ELSE LET last == CHOOSE i \in idx : \A k \in idx : k <= i
             IN  convertValue(key, cellValue(values, last - 1))

\* the row's forEach throws when a cell's trim does
rowThrows(headers, values) ==
    \E i \in 1..Len(headers) : cellValue(values, i - 1) = Threw

\* the Employee with the raw fields spread after the mapped ones: a column
\* named EmployeeID, where there is one, gives the identifier
rowEmployeeSpreadLast(headers, line) ==
    LET values == parseCSVLine(line)
        raw(key) == rawField(headers, values, <<key>>)
    IN  [ EmpID |-> raw("EmpID"),
          DateofHire |-> raw("DateofHire"),
          Department |-> raw("Department"),
          Salary |-> raw("Salary"),
          PerformanceScore |-> raw("PerformanceScore"),
          EngagementSurvey |-> raw("EngagementSurvey"),
          EmployeeID |-> IF raw("EmployeeID") # Undefined THEN raw("EmployeeID")
                         ELSE OrElse(raw("EmpID"), EmptyStr),
          FullName |-> OrElse(raw("Employee_Name"), EmptyStr),
          CurrentSalary |-> OrElse(raw("Salary"), Num(0)),
          Status |-> IF raw("EmploymentStatus") = Str(<<"Active">>)
                     THEN Str(<<"Active">>) ELSE Str(<<"Terminated">>),
          OverallEngagement |-> OrElse(raw("EngagementSurvey"), Null),
          PerformanceCategory |-> OrElse(raw("PerformanceScore"), EmptyStr),
          TenureYears |-> calculateTenure(raw("DateofHire")) ]

\* the Employee built from one line: the spread raw fields the operations
\* read, then the mapped fields (the mapped EmployeeID replaces a raw field of
\* that name)
rowEmployee(headers, line) ==
    LET values == parseCSVLine(line)
        raw(key) == rawField(headers, values, <<key>>)
    IN  [ EmpID |-> raw("EmpID"),
          DateofHire |-> raw("DateofHire"),
          Department |-> raw("Department"),
          Salary |-> raw("Salary"),
          PerformanceScore |-> raw("PerformanceScore"),
          EngagementSurvey |-> raw("EngagementSurvey"),
          EmployeeID |-> OrElse(raw("EmpID"), EmptyStr),
          FullName |-> OrElse(raw("Employee_Name"), EmptyStr),
          CurrentSalary |-> OrElse(raw("Salary"), Num(0)),
          Status |-> IF raw("EmploymentStatus") = Str(<<"Active">>)
                     THEN Str(<<"Active">>) ELSE Str(<<"Terminated">>),
          OverallEngagement |-> OrElse(raw("EngagementSurvey"), Null),
          PerformanceCategory |-> OrElse(raw("PerformanceScore"), EmptyStr),
          TenureYears |-> calculateTenure(raw("DateofHire")) ]

\* the filter that drops no row
keepEveryRow(emp) == TRUE

\* emp.EmployeeID && emp.EmployeeID.toString().trim() !== ''
keepRow(emp) ==
    /\ Truthy(emp.EmployeeID)
    /\ (IsStr(emp.EmployeeID) => Trim(emp.EmployeeID.s) # <<>>)

\* parseCSV: [threw, value]
parseCSV(text) ==
    LET lines == csvLines(text)
        headers == csvHeaders(text)
        rows == SubSeq(lines, 2, Len(lines))
        all == [j \in 1..Len(rows) |-> rowEmployee(headers, rows[j])]
        Keep(emp) == keepRow(emp)
    IN  IF \E j \in 1..Len(rows) : rowThrows(headers, parseCSVLine(rows[j]))
        THEN [threw |-> TRUE, value |-> <<>>]
        ELSE [threw |-> FALSE, value |-> SelectSeq(all, Keep)]

----------------------------------------------------------------------------
(* Analytics engine *)

Active == Str(<<"Active">>)
Terminated == Str(<<"Terminated">>)

\* keys every object literal inherits from Object.prototype, with the name
\* of the function found under them
InheritedKeys == {<<"constructor">>, <<"toString">>}
InheritedMember(key) ==
    IF key = <<"constructor">> THEN Function("Object") ELSE Function(key[1])

\* performanceScoreMap[category]: the map is an object literal, so a key it
\* does not hold itself is looked up in Object.prototype, and is undefined
\* only when it is not found there either (a number is looked up by its
\* decimal text, which is a key of neither)
performanceScoreMap(category) ==
    CASE category = Str(<<"Exceeds">>) -> Num(5)
      [] category = Str(<<"Fully Meets">>) -> Num(4)
      [] category = Str(<<"Needs Improvement">>) -> Num(3)
      [] category = Str(<<"PIP">>) -> Num(2)
      [] IsStr(category) /\ category.s \in InheritedKeys -> InheritedMember(category.s)
      [] OTHER -> Undefined

\* emp.PerformanceCategory && performanceScoreMap[emp.PerformanceCategory] !== undefined
hasKnownCategory(emp) ==
    /\ Truthy(emp.PerformanceCategory)
    /\ performanceScoreMap(emp.PerformanceCategory) # Undefined

\* the engagement test without the comparison: emp.OverallEngagement !== null
hasEngagementNonNull(emp) == emp.OverallEngagement # Null

\* emp.OverallEngagement !== null && emp.OverallEngagement > 0
hasEngagement(emp) ==
    /\ emp.OverallEngagement # Null
    /\ JSGt(emp.OverallEngagement, Num(0))

\* emp.TenureYears !== null && emp.TenureYears >= 0
hasTenure(emp) ==
    /\ emp.TenureYears # Null
    /\ JSGe(emp.TenureYears, Num(0))

\* xs.reduce((sum, x) => sum + x, 0)
RECURSIVE SumValues(_)
SumValues(xs) ==
    IF xs = <<>> THEN Num(0)
    ELSE JSAdd(SumValues(SubSeq(xs, 1, Len(xs) - 1)), xs[Len(xs)])

\* length > 0 ? sum / length : 0
averageOrZero(sum, length) ==
    IF length > 0 THEN JSDiv(sum, Num(length)) ELSE Num(0)

\* (part / length) * 100 with no guard on the length
rateUnguarded(part, length) == JSMul(JSDiv(Num(part), Num(length)), Num(100))

\* part / length, guarded, without the factor 100
rateAsFraction(part, length) ==
    IF length > 0 THEN JSDiv(Num(part), Num(length)) ELSE Num(0)

\* length > 0 ? (part / length) * 100 : 0
rateOrZero(part, length) ==
    IF length > 0 THEN JSMul(JSDiv(Num(part), Num(length)), Num(100)) ELSE Num(0)

Scores(emps) == [i \in 1..Len(emps) |-> performanceScoreMap(emps[i].PerformanceCategory)]
Engagements(emps) == [i \in 1..Len(emps) |-> emps[i].OverallEngagement]
Tenures(emps) == [i \in 1..Len(emps) |-> emps[i].TenureYears]
Salaries(emps) == [i \in 1..Len(emps) |-> OrElse(emps[i].CurrentSalary, Num(0))]

\* the status test that every record passes
IsAnyStatus(emp) == TRUE

\* emp.Status === 'Active'
IsActive(emp) == emp.Status = Active
IsHigh(emp) ==
    emp.PerformanceCategory = Str(<<"Exceeds">>)
        \/ emp.PerformanceCategory = Str(<<"Fully Meets">>)

calculateDashboardMetrics(emps) ==
    LET activeEmployees == SelectSeq(emps, IsActive)
        employeesWithEngagement == SelectSeq(emps, hasEngagement)
        employeesWithTenure == SelectSeq(emps, hasTenure)
        employeesWithPerformance == SelectSeq(emps, hasKnownCategory)
    IN  [ threw |-> FALSE,
          input |-> emps,
          value |->
            [ totalEmployees |-> Num(Len(emps)),
              activeEmployees |-> Num(Len(activeEmployees)),
              averagePerformance |->
                  averageOrZero(SumValues(Scores(employeesWithPerformance)),
                                Len(employeesWithPerformance)),
              turnoverRate |->
                  rateOrZero(Len(emps) - Len(activeEmployees), Len(emps)),
              averageTenure |->
                  averageOrZero(SumValues(Tenures(employeesWithTenure)),
                                Len(employeesWithTenure)),
              averageEngagement |->
                  averageOrZero(SumValues(Engagements(employeesWithEngagement)),
                                Len(employeesWithEngagement)),
              highPerformers |-> Num(Len(SelectSeq(employeesWithPerformance, IsHigh))) ] ]

\* [...new Set(xs)]: the first occurrence of each value, in order
RECURSIVE Unique(_)
Unique(xs) ==
    IF xs = <<>> THEN <<>>
    ELSE LET front == Unique(SubSeq(xs, 1, Len(xs) - 1))
             x == xs[Len(xs)]
         IN  IF \E i \in 1..Len(front) : front[i] = x THEN front
             ELSE Append(front, x)

\* x put into the sequence `sorted` (descending in key) behind every entry
\* whose key is not smaller: Array.prototype.sort is stable
InsertDesc(sorted, x) ==
    LET before == {i \in 1..Len(sorted) : sorted[i].key >= x.key}
        k == Cardinality(before)
    IN  SubSeq(sorted, 1, k) \o <<x>> \o SubSeq(sorted, k + 1, Len(sorted))

\* xs.sort((a, b) => b.key - a.key) on entries [key, item]
RECURSIVE SortDesc(_)
SortDesc(xs) ==
    IF xs = <<>> THEN <<>>
    ELSE InsertDesc(SortDesc(SubSeq(xs, 1, Len(xs) - 1)), xs[Len(xs)])

Items(xs) == [i \in 1..Len(xs) |-> xs[i].item]

\* An array and whether it is the array object the caller passed in: filter,
\* map and slice build a new array, sort reorders the array it is called on.
CallerArray(xs) == [arr |-> xs, own |-> TRUE]
FreshArray(xs) == [arr |-> xs, own |-> FALSE]

\* the array left as it is
ArrayLeftAlone(a, keys) == a

\* a.sort((x, y) => key(y) - key(x)) where keys[i] is the key of a.arr[i]:
\* in place, returns a itself
ArraySort(a, keys) ==
    [ arr |-> Items(SortDesc([i \in 1..Len(a.arr) |->
                                [key |-> keys[i], item |-> a.arr[i]]])),
      own |-> a.own ]

\* the caller's array after a call that sorted the array `sorted`
InputAfter(emps, sorted) == IF sorted.own THEN sorted.arr ELSE emps

\* every arrangement of the elements of xs
Arrangements(xs) ==
    LET n == Len(xs)
        perms == {p \in [1..n -> 1..n] : \A i, j \in 1..n : p[i] = p[j] => i = j}
    IN  {[i \in 1..n |-> xs[p[i]]] : p \in perms}

\* a.sort((x, y) => Score(y) - Score(x)) where a score may be no number: the
\* difference is then NaN, which sort takes for 0 (equal). With numbers only
\* the sort is the stable descending one. With a non-number among the scores
\* every element compares equal to it: if the numbers are all equal too, all
\* elements are equal and the stable sort leaves the order; if two numbers
\* differ the comparator is not consistent and the order is whatever the
\* engine makes of it. The set of the arrays a may hold afterwards.
ArraySortOutcomes(a, scores) ==
    LET n == Len(a.arr)
        numbers == {i \in 1..n : IsNum(scores[i])}
    IN  IF numbers = 1..n THEN {ArraySort(a, [i \in 1..n |-> scores[i].n])}
        ELSE IF \A i, j \in numbers : scores[i] = scores[j] THEN {a}
        ELSE {[arr |-> xs, own |-> a.own] : xs \in Arrangements(a.arr)}

\* the department test without the trim: d alone
departmentTestTruthy(d) == [threw |-> FALSE, keep |-> Truthy(d)]

\* d && d.trim() !== '' : [threw, keep]
departmentTest(d) ==
    IF ~Truthy(d) THEN [threw |-> FALSE, keep |-> FALSE]
    ELSE LET t == MethodTrim(d)
         IN  [threw |-> t = Threw, keep |-> t # Threw /\ t # EmptyStr]

\* the entry with the averages taken over all records of the department
departmentEntryAllRecords(emps, dept) ==
    LET InDept(emp) == emp.Department = dept
        deptEmployees == SelectSeq(emps, InDept)
        activeDeptEmployees == SelectSeq(deptEmployees, IsActive)
        deptWithPerformance == SelectSeq(deptEmployees, hasKnownCategory)
        deptWithEngagement == SelectSeq(deptEmployees, hasEngagement)
    IN  [ department |-> dept,
          employeeCount |-> Num(Len(activeDeptEmployees)),
          averagePerformance |->
              averageOrZero(SumValues(Scores(deptWithPerformance)),
                            Len(deptWithPerformance)),
          averageSalary |->
              averageOrZero(SumValues(Salaries(deptEmployees)), Len(deptEmployees)),
          averageEngagement |->
              averageOrZero(SumValues(Engagements(deptWithEngagement)),
                            Len(deptWithEngagement)),
          turnoverRate |->
              rateOrZero(Len(deptEmployees) - Len(activeDeptEmployees),
                         Len(deptEmployees)) ]

\* the entry with averageSalary taken over the Active records that have a salary
departmentEntryPaidOnly(emps, dept) ==
    LET InDept(emp) == emp.Department = dept
        HasSalary(emp) == emp.CurrentSalary # Null
        deptEmployees == SelectSeq(emps, InDept)
        activeDeptEmployees == SelectSeq(deptEmployees, IsActive)
        paid == SelectSeq(activeDeptEmployees, HasSalary)
        deptWithPerformance == SelectSeq(activeDeptEmployees, hasKnownCategory)
        deptWithEngagement == SelectSeq(activeDeptEmployees, hasEngagement)
    IN  [ department |-> dept,
          employeeCount |-> Num(Len(activeDeptEmployees)),
          averagePerformance |->
              averageOrZero(SumValues(Scores(deptWithPerformance)),
                            Len(deptWithPerformance)),
          averageSalary |-> averageOrZero(SumValues(Salaries(paid)), Len(paid)),
          averageEngagement |->
              averageOrZero(SumValues(Engagements(deptWithEngagement)),
                            Len(deptWithEngagement)),
          turnoverRate |->
              rateOrZero(Len(deptEmployees) - Len(activeDeptEmployees),
                         Len(deptEmployees)) ]

\* one entry of the map over departments
departmentEntry(emps, dept) ==
    LET InDept(emp) == emp.Department = dept
        deptEmployees == SelectSeq(emps, InDept)
        activeDeptEmployees == SelectSeq(deptEmployees, IsActive)
        deptWithPerformance == SelectSeq(activeDeptEmployees, hasKnownCategory)
        deptWithEngagement == SelectSeq(activeDeptEmployees, hasEngagement)
    IN  [ department |-> dept,
          employeeCount |-> Num(Len(activeDeptEmployees)),
          averagePerformance |->
              averageOrZero(SumValues(Scores(deptWithPerformance)),
                            Len(deptWithPerformance)),
          averageSalary |->
              averageOrZero(SumValues(Salaries(activeDeptEmployees)),
                            Len(activeDeptEmployees)),
          averageEngagement |->
              averageOrZero(SumValues(Engagements(deptWithEngagement)),
                            Len(deptWithEngagement)),
          turnoverRate |->
              rateOrZero(Len(deptEmployees) - Len(activeDeptEmployees),
                         Len(deptEmployees)) ]

calculateDepartmentStats(emps) ==
    LET all == Unique([i \in 1..Len(emps) |-> emps[i].Department])
        Keep(d) == departmentTest(d).keep
        departments == SelectSeq(all, Keep)
        mapped == FreshArray([i \in 1..Len(departments) |->
                                departmentEntry(emps, departments[i])])
        sorted == ArraySort(mapped, [i \in 1..Len(mapped.arr) |->
                                       mapped.arr[i].employeeCount.n])
    IN  IF \E i \in 1..Len(all) : departmentTest(all[i]).threw
        THEN [threw |-> TRUE, value |-> <<>>, input |-> emps]
        ELSE [threw |-> FALSE, value |-> sorted.arr, input |-> InputAfter(emps, sorted)]

\* hasCategory without the tests for the texts null and undefined
categoryTestTrimOnly(cat) ==
    IF ~Truthy(cat) THEN [threw |-> FALSE, keep |-> FALSE]
    ELSE LET t == MethodTrim(cat)
         IN  [threw |-> t = Threw, keep |-> t # Threw /\ t # EmptyStr]

\* hasCategory of calculatePerformanceDistribution: [threw, keep]
\* cat && cat.trim() !== '' && cat !== 'null' && cat !== 'undefined'
categoryTest(cat) ==
    IF ~Truthy(cat) THEN [threw |-> FALSE, keep |-> FALSE]
    ELSE LET t == MethodTrim(cat)
         IN  [threw |-> t = Threw,
              keep |-> /\ t # Threw
                       /\ t # EmptyStr
                       /\ cat # Str(<<"null">>)
                       /\ cat # Str(<<"undefined">>)]

DefaultColor == "#6B7280"

\* what stands in the color field when the lookup finds a function
FunctionColor == "[function]"

\* colors[category] || '#6B7280': colors is an object literal too
categoryColor(category) ==
    CASE category = Str(<<"Fully Meets">>) -> "#70ad47"
      [] category = Str(<<"Exceeds">>) -> "#4CAF50"
      [] category = Str(<<"Needs Improvement">>) -> "#ff9900"
      [] category = Str(<<"PIP">>) -> "#c5504b"
      [] IsStr(category) /\ category.s \in InheritedKeys -> FunctionColor
      [] OTHER -> DefaultColor

calculatePerformanceDistribution(emps) ==
    LET Keep(emp) == categoryTest(emp.PerformanceCategory).keep
        employeesWithPerformance == SelectSeq(emps, Keep)
        total == Len(employeesWithPerformance)
        uniqueCategories ==
            Unique([i \in 1..total |-> employeesWithPerformance[i].PerformanceCategory])
        entry(category) ==
            LET Same(emp) == emp.PerformanceCategory = category
                count == Len(SelectSeq(employeesWithPerformance, Same))
            IN  [ category |-> category,
                  count |-> Num(count),
                  percentage |-> rateOrZero(count, total),
                  color |-> categoryColor(category) ]
        mapped == FreshArray([i \in 1..Len(uniqueCategories) |->
                                entry(uniqueCategories[i])])
        Positive(e) == e.count.n > 0
        filtered == FreshArray(SelectSeq(mapped.arr, Positive))
        sorted == ArraySort(filtered, [i \in 1..Len(filtered.arr) |->
                                         filtered.arr[i].count.n])
    IN  IF \E i \in 1..Len(emps) : categoryTest(emps[i].PerformanceCategory).threw
        THEN [threw |-> TRUE, value |-> <<>>, input |-> emps]
        ELSE IF total = 0 THEN [threw |-> FALSE, value |-> <<>>, input |-> emps]
        ELSE [threw |-> FALSE, value |-> sorted.arr, input |-> InputAfter(emps, sorted)]

\* xs.slice(0, end): a negative end counts from the back
SliceTo(xs, end) ==
    LET k == IF end < 0 THEN (IF Len(xs) + end < 0 THEN 0 ELSE Len(xs) + end)
             ELSE IF end > Len(xs) THEN Len(xs) ELSE end
    IN  SubSeq(xs, 1, k)

topFilter(emp) == hasKnownCategory(emp) /\ emp.Status = Active

\* performanceScoreMap[emp.PerformanceCategory], the operand of the comparator
topScore(emp) == performanceScoreMap(emp.PerformanceCategory)

\* the operands of the comparator for the elements of a
topScores(a) == [i \in 1..Len(a.arr) |-> topScore(a.arr[i])]

\* the results a call may return, one for each array the sort may leave
TopResults(emps, sortedArrays, lim) ==
    { [ threw |-> FALSE,
        value |-> SliceTo(sorted.arr, lim),
        input |-> InputAfter(emps, sorted) ] : sorted \in sortedArrays }

\* getTopPerformers with the sort before the filter: employees.sort(...)
getTopPerformersSortFirst(emps, lim) ==
    { [ threw |-> FALSE,
        value |-> SliceTo(SelectSeq(sorted.arr, topFilter), lim),
        input |-> InputAfter(emps, sorted) ] :
      sorted \in ArraySortOutcomes(CallerArray(emps), topScores(CallerArray(emps))) }

\* employees.filter(...).sort(...).slice(0, limit): the set of the results
\* the call may return (one result, unless the comparator is inconsistent)
getTopPerformers(emps, lim) ==
    LET filtered == FreshArray(SelectSeq(emps, topFilter))
    IN  TopResults(emps, ArraySortOutcomes(filtered, topScores(filtered)), lim)

\* the default of the limit parameter
DefaultLimit == 10

tenureFilter(emp) == emp.TenureYears # Null /\ hasKnownCategory(emp)

getPerformanceByTenure(emps) ==
    LET employeesWithData == SelectSeq(emps, tenureFilter)
    IN  [ threw |-> FALSE,
          input |-> emps,
          value |-> [i \in 1..Len(employeesWithData) |->
              LET emp == employeesWithData[i]
              IN  [ name |-> emp.FullName,
                    tenure |-> emp.TenureYears,
                    performance |-> performanceScoreMap(emp.PerformanceCategory),
                    salary |-> emp.CurrentSalary,
                    department |-> emp.Department ]] ]

satisfactionFilter(emp) == emp.OverallEngagement # Null /\ hasKnownCategory(emp)

getSatisfactionPerformanceCorrelation(emps) ==
    LET kept == SelectSeq(emps, satisfactionFilter)
    IN  [ threw |-> FALSE,
          input |-> emps,
          value |-> [i \in 1..Len(kept) |->
              LET emp == kept[i]
              IN  [ name |-> emp.FullName,
                    satisfaction |-> emp.OverallEngagement,
                    performance |-> performanceScoreMap(emp.PerformanceCategory),
                    tenure |-> emp.TenureYears,
                    department |-> emp.Department ]] ]

----------------------------------------------------------------------------
(* Input texts *)

\* the most data rows of an input text of complete rows under the full header
MaxRows == 3
\* the most data rows when malformed rows are among them
MaxRowsMixed == 2
\* the most data rows under one of the other headers
MaxRowsOther == 1

RECURSIVE Join(_, _)
Join(parts, sep) ==
    IF parts = <<>> THEN <<>>
    ELSE IF Len(parts) = 1 THEN parts[1]
    ELSE parts[1] \o <<sep>> \o Join(Tail(parts), sep)

FullHeader ==
    Join(<< <<"DateofHire">>, <<"EmpID">>, <<"Employee_Name">>, <<"Department">>,
            <<"EmploymentStatus">>, <<"Salary">>, <<"PerformanceScore">>,
            <<"EngagementSurvey">> >>, COMMA)

\* the same columns behind a BOM, with spaces around the names and a CR
SpacedHeader ==
    <<BOM>> \o
    Join(<< <<"DateofHire">>, <<SP, "EmpID", SP>>, <<"Employee_Name">>, <<"Department">>,
            <<"EmploymentStatus">>, <<"Salary">>, <<"PerformanceScore">>,
            <<"EngagementSurvey", CR>> >>, COMMA)

\* a header of the older column names: no EmpID column
OldHeader ==
    Join(<< <<"HireDate">>, <<"EmployeeID">>, <<"FullName">>, <<"Department">>,
            <<"Status">>, <<"CurrentSalary">>, <<"PerformanceScore">>,
            <<"OverallEngagement">> >>, COMMA)

\* a header with a column named EmployeeID before the column EmpID
BothIdsHeader ==
    Join(<< <<"EmployeeID">>, <<"EmpID">>, <<"Employee_Name">>, <<"Department">>,
            <<"EmploymentStatus">>, <<"Salary">>, <<"PerformanceScore">>,
            <<"EngagementSurvey">> >>, COMMA)

OtherHeaders == {SpacedHeader, OldHeader, BothIdsHeader, <<>>}

D50000 == <<"5", "0", "0", "0", "0">>
D70000 == <<"7", "0", "0", "0", "0">>

Row(hire, id, name, dept, status, salary, perf, eng) ==
    Join(<<hire, id, name, dept, status, salary, perf, eng>>, COMMA)

QuotedName == <<QUOTE, "Smith", COMMA, SP, "John", QUOTE>>

\* rows with every field of the header
CompleteLines ==
    { Row(<<"2020-10-04">>, <<"E1">>, <<"Ann">>, <<"Sales">>, <<"Active">>,
          D50000, <<"Exceeds">>, <<"4">>),
      Row(<<"2016-10-04">>, <<"E2">>, <<"Bob">>, <<"Sales">>, <<"Active">>,
          <<>>, <<"Fully Meets">>, <<>>),
      Row(<<"2020-10-04">>, <<"E3">>, <<"Cy">>, <<"Sales">>, <<"Active">>,
          D70000, <<"Needs Improvement">>, <<"2">>),
      Row(<<"2016-10-04">>, <<"E4">>, <<"Di">>, <<"IT">>, <<"Terminated">>,
          D70000, <<"PIP">>, <<"0">>),
      \* a numeric rating, an unparseable hire date
      Row(<<"notadate">>, <<"E5">>, <<"Ed">>, <<"IT">>, <<"Active">>,
          <<"abc">>, <<"4">>, <<"5">>),
      \* a quoted name with an embedded comma, a hire date in the future
      Row(<<"2999-01-01">>, <<"E7">>, QuotedName, <<"Sales">>, <<"Active">>,
          D50000, <<"PIP">>, <<"3">>),
      \* a blank identifier
      Row(<<"2020-10-04">>, <<SP>>, <<"Gus">>, <<"IT">>, <<"Active">>,
          D50000, <<"Exceeds">>, <<"4">>) }

\* rows with blank, missing, surplus or broken fields
MalformedLines ==
    { \* empty cells
      Row(<<>>, <<"E6">>, <<"Flo">>, <<>>, <<"Active">>, <<>>, <<>>, <<>>),
      \* fewer fields than the header
      Join(<< <<"2020-10-04">>, <<"E8">> >>, COMMA),
      \* more fields than the header, a CR at the end
      Row(<<"2020-10-04">>, <<"E9">>, <<"Hal">>, <<"IT">>, <<"On Leave">>,
          <<"-", "5">>, <<"Other">>, <<"4", "x">>) \o <<COMMA, "extra", CR>>,
      \* an unbalanced quote
      Row(<<"2020-10-04">>, <<"E10">>, <<QUOTE, "Ivy">>, <<"Sales">>, <<"Active">>,
          D50000, <<"Exceeds">>, <<"4">>),
      \* an empty line
      <<>> }

RowLines == CompleteLines \cup MalformedLines

RECURSIVE SeqsUpTo(_, _)
SeqsUpTo(S, n) ==
    IF n = 0 THEN {<<>>}
    ELSE LET shorter == SeqsUpTo(S, n - 1)
         IN  shorter \cup {Append(q, x) : q \in {r \in shorter : Len(r) = n - 1}, x \in S}

Text(header, rows) == Join(<<header>> \o rows, NL)

InputTexts ==
    {Text(FullHeader, rows) : rows \in SeqsUpTo(CompleteLines, MaxRows)}
        \cup {Text(FullHeader, rows) : rows \in SeqsUpTo(RowLines, MaxRowsMixed)}
        \cup {Text(h, rows) : h \in OtherHeaders, rows \in SeqsUpTo(RowLines, MaxRowsOther)}

----------------------------------------------------------------------------
(* Operations as actions *)

NoResult == [op |-> "none", threw |-> FALSE, value |-> <<>>]

Returned(name, r) == [op |-> name, threw |-> r.threw, value |-> r.value]

\* parseCSV(csvText)
ParseCSV ==
    /\ pc = "input"
    /\ \E r \in {parseCSV(csvText)} :
           /\ employees' = r.value
           /\ result' = Returned("parseCSV", r)
           /\ pc' = IF r.threw THEN "done" ELSE "ready"
    /\ UNCHANGED <<csvText, loading, error, response, limit>>

\* a call of an analytics operation on the employees array: the array is
\* afterwards what the call left in it
Apply(name, r) ==
    /\ pc = "ready"
    /\ \E returned \in {r} :
           /\ result' = Returned(name, returned)
           /\ employees' = returned.input
    /\ pc' = "done"
    /\ UNCHANGED <<csvText, loading, error, response, limit>>

CalculateDashboardMetrics ==
    Apply("calculateDashboardMetrics", calculateDashboardMetrics(employees))

CalculateDepartmentStats ==
    Apply("calculateDepartmentStats", calculateDepartmentStats(employees))

CalculatePerformanceDistribution ==
    Apply("calculatePerformanceDistribution", calculatePerformanceDistribution(employees))

GetTopPerformers ==
    \E r \in getTopPerformers(employees, limit) : Apply("getTopPerformers", r)

GetPerformanceByTenure ==
    Apply("getPerformanceByTenure", getPerformanceByTenure(employees))

GetSatisfactionPerformanceCorrelation ==
    Apply("getSatisfactionPerformanceCorrelation",
          getSatisfactionPerformanceCorrelation(employees))

Analyse ==
    \/ CalculateDashboardMetrics
    \/ CalculateDepartmentStats
    \/ CalculatePerformanceDistribution
    \/ GetTopPerformers
    \/ GetPerformanceByTenure
    \/ GetSatisfactionPerformanceCorrelation

\* parseCSV on an input text, then one analytics operation on its result
InitParse ==
    /\ csvText \in InputTexts
    /\ employees = <<>>
    /\ pc = "input"
    /\ loading = FALSE
    /\ error = Null
    /\ response = "none"
    /\ limit = DefaultLimit
    /\ result = NoResult

NextParse == ParseCSV \/ Analyse

SpecParse == InitParse /\ [][NextParse]_vars

----------------------------------------------------------------------------
(* Record sequences given to the analytics operations directly *)

\* the most records of a sequence given to the six operations
MaxEmployees == 3
\* the most records of a sequence given to getTopPerformers
MaxTop == 4
\* the same when a category that is a key of Object.prototype is among them
MaxTopInherited == 3

\* an Employee as the interface types it (TenureYears may be NaN, see
\* calculateTenure; an engagement may be null, see parseCSV)
Emp(dept, status, category, engagement, salary, tenure) ==
    [ EmpID |-> Str(<<"E">>),
      DateofHire |-> Null,
      Department |-> dept,
      Salary |-> salary,
      PerformanceScore |-> category,
      EngagementSurvey |-> engagement,
      EmployeeID |-> Str(<<"E">>),
      FullName |-> Str(<<"E">>),
      CurrentSalary |-> salary,
      Status |-> status,
      OverallEngagement |-> engagement,
      PerformanceCategory |-> category,
      TenureYears |-> tenure ]

Sales == Str(<<"Sales">>)
IT == Str(<<"IT">>)

Profiles ==
    { Emp(Sales, Active, Str(<<"Exceeds">>), Num(4), Num(50000), Num(4)),
      Emp(Sales, Active, Str(<<"Fully Meets">>), Null, Num(0), Num(0)),
      Emp(Sales, Terminated, Str(<<"Needs Improvement">>), Num(5), Num(70000), Num(8)),
      Emp(IT, Active, Str(<<"PIP">>), Num(0), Num(70000), NaN),
      Emp(IT, Terminated, Str(<<"Exceeds">>), Num(3), Num(50000), Num(4)),
      Emp(IT, Active, EmptyStr, Null, Null, NaN),
      Emp(Str(<<SP>>), Active, Str(<<"Fully Meets">>), Num(2), Num(50000), Num(8)),
      Emp(Null, Terminated, Str(<<"undefined">>), Null, Num(0), Num(0)),
      Emp(Sales, Active, Str(<<"Other">>), Num(0), Num(50000), Num(4)),
      Emp(IT, Active, Str(<<"null">>), Num(3), Num(70000), Rat(1, 2)),
      Emp(EmptyStr, Active, Str(<<SP>>), Num(4), Num(50000), Num(4)),
      \* a category that is a key of Object.prototype
      Emp(IT, Active, Str(<<"constructor">>), Num(4), Num(50000), Num(4)) }

TopProfiles ==
    { Emp(Sales, Active, Str(<<"Exceeds">>), Num(4), Num(50000), Num(4)),
      Emp(Sales, Active, Str(<<"Fully Meets">>), Num(4), Num(50000), Num(4)),
      Emp(Sales, Active, Str(<<"Needs Improvement">>), Num(4), Num(50000), Num(4)),
      Emp(Sales, Active, Str(<<"PIP">>), Num(4), Num(50000), Num(4)),
      Emp(Sales, Active, EmptyStr, Num(4), Num(50000), Num(4)),
      Emp(Sales, Terminated, Str(<<"Exceeds">>), Num(4), Num(50000), Num(4)) }

\* the same with a record whose category is a key of Object.prototype
TopProfilesInherited ==
    TopProfiles \cup {Emp(Sales, Active, Str(<<"toString">>), Num(4), Num(50000), Num(4))}

\* the records named by their position, so that any two records differ
Named(emps) ==
    [i \in 1..Len(emps) |->
        [emps[i] EXCEPT !.FullName = Str(<<"N", Digits[i + 1]>>),
                        !.EmployeeID = Str(<<"E", Digits[i + 1]>>),
                        !.EmpID = Str(<<"E", Digits[i + 1]>>)]]

\* ten records of one department, the first seven of them Active
TenOfWhichSevenActive ==
    [i \in 1..10 |->
        [Emp(Sales, IF i <= 7 THEN Active ELSE Terminated,
             Str(<<"Fully Meets">>), Num(4), Num(50000), Num(4))
            EXCEPT !.FullName = Str(<<"T", Digits[i]>>),
                   !.EmployeeID = Str(<<"T", Digits[i]>>),
                   !.EmpID = Str(<<"T", Digits[i]>>)]]

InitAnalytics ==
    /\ csvText = <<>>
    /\ employees \in {Named(q) : q \in SeqsUpTo(Profiles, MaxEmployees)}
                        \cup {TenOfWhichSevenActive}
    /\ pc = "ready"
    /\ loading = FALSE
    /\ error = Null
    /\ response = "none"
    /\ limit = DefaultLimit
    /\ result = NoResult

NextAnalytics == Analyse

SpecAnalytics == InitAnalytics /\ [][NextAnalytics]_vars

InitTop ==
    /\ csvText = <<>>
    /\ employees \in {Named(q) : q \in SeqsUpTo(TopProfiles, MaxTop)}
                        \cup {Named(q) : q \in SeqsUpTo(TopProfilesInherited, MaxTopInherited)}
    /\ pc = "ready"
    /\ loading = FALSE
    /\ error = Null
    /\ response = "none"
    /\ limit \in -1..(MaxTop + 1)
    /\ result = NoResult

NextTop == GetTopPerformers

\* the caller goes on to its next call on the same array
CallAgain ==
    /\ pc = "done"
    /\ pc' = "ready"
    /\ UNCHANGED <<csvText, employees, loading, error, response, limit, result>>

\* any number of calls of the six operations, in any order, on one array
NextCalls == Analyse \/ CallAgain

\* the longest array the operations are called on repeatedly
MaxCallEmployees == 3

\* the records of the arrays the operations are called on repeatedly: both
\* statuses, every label, two departments and a blank one, and a category
\* that is a key of Object.prototype
CallProfiles ==
    { Emp(Sales, Active, Str(<<"Exceeds">>), Num(4), Num(50000), Num(4)),
      Emp(Sales, Terminated, Str(<<"Needs Improvement">>), Num(5), Num(70000), Num(8)),
      Emp(IT, Active, Str(<<"PIP">>), Num(0), Num(70000), NaN),
      Emp(Str(<<SP>>), Active, Str(<<"Fully Meets">>), Null, Num(0), Num(8)),
      Emp(IT, Active, Str(<<"constructor">>), Num(4), Num(50000), Num(4)) }

InitCalls ==
    /\ csvText = <<>>
    /\ employees \in {Named(q) : q \in SeqsUpTo(CallProfiles, MaxCallEmployees)}
    /\ pc = "ready"
    /\ loading = FALSE
    /\ error = Null
    /\ response = "none"
    /\ limit = DefaultLimit
    /\ result = NoResult

SpecCalls == InitCalls /\ [][NextCalls]_vars

SpecTop == InitTop /\ [][NextTop]_vars

----------------------------------------------------------------------------
(* The Dashboard component *)

FailedToLoad == Str(<<"Failed to load employee data">>)

\* what a server that has no such file answers with
NotFoundPage == <<"<html>", NL, "<h1>", "404", "</h1>", NL, "</html>">>

\* the bodies a success response carries
ServedTexts ==
    {Text(h, rows) : h \in {FullHeader} \cup OtherHeaders,
                     rows \in SeqsUpTo(RowLines, MaxRowsOther)}

\* num.toFixed(1), as the decimal number the text shows (ties away from zero)
formatNumber(num) ==
    IF ~IsNum(num) THEN num
    ELSE LET tenths == (20 * Abs(num.n) + num.d) \div (2 * num.d)
         IN  Rat((IF num.n < 0 THEN -1 ELSE 1) * tenths, 10)

\* the literal array assigned to departmentStats
LiteralDepartmentStats ==
    LET entry(dept, count, perf, salary, eng, turnover) ==
            [ department |-> Str(<<dept>>), employeeCount |-> Num(count),
              averagePerformance |-> perf, averageSalary |-> Num(salary),
              averageEngagement |-> eng, turnoverRate |-> Num(turnover) ]
    IN  << entry("Production", 209, Num(4), 60000, Rat(35, 10), 10),
           entry("IT/IS", 50, Rat(38, 10), 80000, Rat(32, 10), 5),
           entry("Sales", 31, Rat(42, 10), 70000, Rat(38, 10), 15),
           entry("Software Engineering", 11, Rat(45, 10), 90000, Num(4), 8),
           entry("Admin Offices", 9, Rat(35, 10), 50000, Num(3), 20),
           entry("Executive Office", 1, Rat(48, 10), 120000, Rat(45, 10), 0) >>

\* the literal array assigned to performanceDistribution
LiteralPerformanceDistribution ==
    << [category |-> Str(<<"Fully Meets">>), count |-> Num(243), color |-> "#70ad47"],
       [category |-> Str(<<"Exceeds">>), count |-> Num(37), color |-> "#4CAF50"],
       [category |-> Str(<<"Needs Improvement">>), count |-> Num(18), color |-> "#ff9900"],
       [category |-> Str(<<"PIP">>), count |-> Num(13), color |-> "#c5504b"] >>

\* the literal array assigned to topPerformers
LiteralTopPerformers ==
    LET row(id, name, dept, tenure, eng, salary) ==
            [ EmployeeID |-> Num(id), FullName |-> Str(<<name>>),
              Department |-> Str(<<dept>>),
              PerformanceCategory |-> Str(<<"Exceeds">>),
              TenureYears |-> tenure, OverallEngagement |-> eng,
              Salary |-> Num(salary) ]
    IN  << row(1, "Zamora, Jennifer", "IT/IS", Rat(85, 10), Rat(48, 10), 220450),
           row(2, "Foss, Jason", "IT/IS", Rat(72, 10), Rat(47, 10), 178000),
           row(3, "Corleone, Vito", "Production", Rat(123, 10), Rat(46, 10), 170500),
           row(4, "Dougall, Eric", "IT/IS", Rat(68, 10), Rat(45, 10), 138888),
           row(5, "Patronick, Lucas", "Software Engineering", Rat(54, 10), Rat(49, 10), 108987) >>

\* the literal given to the Avg Performance card: formatNumber(4.13)
LiteralAveragePerformance == formatNumber(Rat(413, 100))

\* (metrics.activeEmployees / metrics.totalEmployees) * 100, the number the
\* Active Employees card formats as its retention
retention(metrics) ==
    JSMul(JSDiv(metrics.activeEmployees, metrics.totalEmployees), Num(100))

\* the component's render: the loading screen, the error screen with the
\* Retry button, or the dashboard with the metrics of the loaded records and
\* the tables and the average performance it is given
RenderOutput ==
    IF loading
    THEN [ view |-> "loading", message |-> Null, metrics |-> <<>>,
           departmentStats |-> <<>>, performanceDistribution |-> <<>>,
           topPerformers |-> <<>>, averagePerformance |-> Null,
           retention |-> Null ]
    ELSE IF Truthy(error)
    THEN [ view |-> "error", message |-> error, metrics |-> <<>>,
           departmentStats |-> <<>>, performanceDistribution |-> <<>>,
           topPerformers |-> <<>>, averagePerformance |-> Null,
           retention |-> Null ]
    ELSE [ view |-> "dashboard",
           message |-> Null,
           metrics |-> calculateDashboardMetrics(employees).value,
           departmentStats |-> LiteralDepartmentStats,
           performanceDistribution |-> LiteralPerformanceDistribution,
           topPerformers |-> LiteralTopPerformers,
           averagePerformance |-> LiteralAveragePerformance,
           retention |-> retention(calculateDashboardMetrics(employees).value) ]

\* useEffect runs fetchData: the fetch is issued
Mount ==
    /\ pc = "mounted"
    /\ pc' = "fetching"
    /\ UNCHANGED <<csvText, employees, loading, error, response, limit, result>>

\* await fetch(...) rejects: the catch block
FetchRejects ==
    /\ pc = "fetching"
    /\ response' = "rejected"
    /\ error' = FailedToLoad
    /\ pc' = "finally"
    /\ UNCHANGED <<csvText, employees, loading, limit, result>>

\* await fetch(...) resolves, with a success or a non-success response
FetchResolves ==
    /\ pc = "fetching"
    /\ \/ response' = "ok" /\ csvText' \in ServedTexts
       \/ response' = "notok" /\ csvText' = NotFoundPage
    /\ pc' = "response"
    /\ UNCHANGED <<employees, loading, error, limit, result>>

\* await response.text() rejects: the catch block
TextRejects ==
    /\ pc = "response"
    /\ error' = FailedToLoad
    /\ pc' = "finally"
    /\ UNCHANGED <<csvText, employees, loading, response, limit, result>>

\* await response.text() resolves; parseCSV(csvText); setEmployees
ParseAndSet ==
    /\ pc = "response"
    /\ \E r \in {parseCSV(csvText)} :
          IF r.threw
          THEN error' = FailedToLoad /\ UNCHANGED employees
          ELSE employees' = r.value /\ UNCHANGED error
    /\ pc' = "finally"
    /\ UNCHANGED <<csvText, loading, response, limit, result>>

\* the finally block without its setLoading(false)
FinallyKeepsLoading ==
    /\ pc = "finally"
    /\ pc' = "settled"
    /\ UNCHANGED <<csvText, employees, loading, error, response, limit, result>>

\* finally { setLoading(false) }
Finally ==
    /\ pc = "finally"
    /\ loading' = FALSE
    /\ pc' = "settled"
    /\ UNCHANGED <<csvText, employees, error, response, limit, result>>

\* React renders the component with the current state
Render ==
    /\ result' = [op |-> "render", threw |-> FALSE, value |-> RenderOutput]
    /\ result' # result
    /\ UNCHANGED <<csvText, employees, pc, loading, error, response, limit>>

\* the Retry button: window.location.reload()
Retry ==
    /\ result.op = "render"
    /\ result.value.view = "error"
    /\ csvText' = <<>>
    /\ employees' = <<>>
    /\ pc' = "mounted"
    /\ loading' = TRUE
    /\ error' = Null
    /\ response' = "none"
    /\ result' = NoResult
    /\ UNCHANGED limit

Init ==
    /\ csvText = <<>>
    /\ employees = <<>>
    /\ pc = "mounted"
    /\ loading = TRUE
    /\ error = Null
    /\ response = "none"
    /\ limit = DefaultLimit
    /\ result = NoResult

Next ==
    \/ Mount
    \/ FetchRejects
    \/ FetchResolves
    \/ TextRejects
    \/ ParseAndSet
    \/ Finally
    \/ Render
    \/ Retry

Spec == Init /\ [][Next]_vars

\* the finally block runs once the try or the catch block is through; nothing
\* makes a pending fetch settle
SpecLifecycle == Init /\ [][Next]_vars /\ WF_vars(Finally)

----------------------------------------------------------------------------
(* Reading the input text back, for the properties below *)

DataLines(text) == SubSeq(csvLines(text), 2, Len(csvLines(text)))

\* the column of the header named key (the last one), 0 when there is none
ColumnOf(text, key) ==
    LET hs == csvHeaders(text)
        idx == {i \in 1..Len(hs) : hs[i] = <<key>>}
    IN  IF idx = {} THEN 0 ELSE CHOOSE i \in idx : \A k \in idx : k <= i

\* a line split by counting quotes: a comma separates exactly when an even
\* number of quotes stands before it; the quotes are then left out
QuotesBefore(line, i) == Cardinality({k \in 1..(i - 1) : line[k] = QUOTE})
Separators(line) ==
    {i \in 1..Len(line) : line[i] = COMMA /\ QuotesBefore(line, i) % 2 = 0}
NotQuote(c) == c # QUOTE
FieldsByQuotes(line) ==
    LET seps == Separators(line)
        n == Cardinality(seps)
        at == [k \in 1..n |-> CHOOSE i \in seps : Cardinality({x \in seps : x < i}) = k - 1]
        from(k) == IF k = 1 THEN 1 ELSE at[k - 1] + 1
        to(k) == IF k = n + 1 THEN Len(line) ELSE at[k] - 1
    IN  [k \in 1..(n + 1) |-> SelectSeq(SubSeq(line, from(k), to(k)), NotQuote)]

\* the trimmed text of the line's cell in column col; empty when the line has
\* no such cell
CellText(line, col) ==
    LET fields == FieldsByQuotes(line)
    IN  IF col \in 1..Len(fields) THEN Trim(fields[col]) ELSE <<>>

\* the data lines whose identifier cell is not blank, in order
KeptLines(text) ==
    LET col == ColumnOf(text, "EmpID")
        HasId(line) == CellText(line, col) # <<>>
    IN  SelectSeq(DataLines(text), HasId)

Labels == {<<"Exceeds">>, <<"Fully Meets">>, <<"Needs Improvement">>, <<"PIP">>}

AnalyticsOps ==
    {"calculateDashboardMetrics", "calculateDepartmentStats",
     "calculatePerformanceDistribution", "getTopPerformers",
     "getPerformanceByTenure", "getSatisfactionPerformanceCorrelation"}

----------------------------------------------------------------------------
(* Properties of the parser, under SpecParse *)

\* C1: every analytics operation applied to the records parseCSV returned
\* completes without raising an error, whatever the columns hold.
C1_AnalyticsTotalOnParsed ==
    (pc = "done" /\ result.op \in AnalyticsOps) => ~result.threw

\* C2: a data row whose PerformanceScore cell is one of the four labels
\* yields a record whose PerformanceCategory is that label, a known category.
C2_LabelBecomesCategory ==
    pc = "ready" =>
        LET kept == KeptLines(csvText)
            col == ColumnOf(csvText, "PerformanceScore")
        IN  \A i \in 1..Len(kept) :
            LET cell == CellText(kept[i], col)
            IN  cell \in Labels =>
                    /\ i <= Len(employees)
                    /\ employees[i].PerformanceCategory = Str(cell)
                    /\ hasKnownCategory(employees[i])

\* the Active records of a department, by position
ActiveIn(emps, dept) ==
    {i \in 1..Len(emps) : emps[i].Department = dept /\ emps[i].Status = Active}

RECURSIVE SalarySum(_, _)
SalarySum(emps, S) ==
    IF S = {} THEN 0
    ELSE LET i == CHOOSE x \in S : TRUE
         IN  (IF emps[i].Salary.t = "number" THEN emps[i].Salary.n ELSE 0)
                 + SalarySum(emps, S \ {i})

RECURSIVE EngagementSum(_, _)
EngagementSum(emps, S) ==
    IF S = {} THEN 0
    ELSE LET i == CHOOSE x \in S : TRUE
         IN  emps[i].OverallEngagement.n + EngagementSum(emps, S \ {i})

MeanOrZero(sum, count) == IF count = 0 THEN Num(0) ELSE Rat(sum, count)

\* an empty numeric cell parses to null in every kept record
EmptyNumericIsNull ==
    LET kept == KeptLines(csvText)
        salary == ColumnOf(csvText, "Salary")
        survey == ColumnOf(csvText, "EngagementSurvey")
    IN  \A i \in 1..Len(employees) :
            /\ CellText(kept[i], salary) = <<>> => employees[i].Salary = Null
            /\ CellText(kept[i], survey) = <<>> => employees[i].EngagementSurvey = Null

C4_TenureZeroOnBadDate ==
    pc = "ready" =>
        \A i \in 1..Len(employees) :
            LET e == employees[i]
                missing == ~Truthy(e.DateofHire)
                time == IF missing THEN NaN ELSE DateGetTime(e.DateofHire.s)
            IN  /\ IsNum(e.TenureYears) /\ e.TenureYears.n >= 0
                /\ (missing \/ time = NaN) => e.TenureYears = Num(0)
                /\ (IsNum(time) /\ time.n > NowDay) => e.TenureYears = Num(0)

\* C5: a comma between two double quotes is part of the field, the quotes are
\* dropped, and the later fields of the row stay under their headers.
C5_QuotedCommaKept ==
    pc = "ready" =>
        LET lines == DataLines(csvText)
            kept == KeptLines(csvText)
            nameCol == ColumnOf(csvText, "Employee_Name")
            deptCol == ColumnOf(csvText, "Department")
            statusCol == ColumnOf(csvText, "EmploymentStatus")
        IN
        /\ \A j \in 1..Len(lines) : parseCSVLine(lines[j]) = FieldsByQuotes(lines[j])
        /\ Len(employees) = Len(kept)
        /\ \A i \in 1..Len(employees) :
              LET name == CellText(kept[i], nameCol)
                  dept == CellText(kept[i], deptCol)
                  status == CellText(kept[i], statusCol)
              IN  /\ employees[i].FullName = Str(name)
                  /\ employees[i].Department = (IF dept = <<>> THEN Null ELSE Str(dept))
                  /\ IsActive(employees[i]) <=> status = <<"Active">>

\* a record parsed from the row with the quoted name "Smith, John"
C5_Witness ==
    /\ pc = "ready"
    /\ \E i \in 1..Len(employees) :
          /\ employees[i].FullName = Str(<<"Smith", COMMA, SP, "John">>)
          /\ employees[i].Department = Str(<<"Sales">>)
          /\ employees[i].Salary = Num(50000)
          /\ LET line == KeptLines(csvText)[i]
             IN  QUOTE \in {line[k] : k \in 1..Len(line)}

\* C6: parseCSV never raises an error, whatever the text.
C6_ParseNeverThrows ==
    result.op = "parseCSV" => ~result.threw

\* parseCSV returned records for a text with a row shorter than the header
\* and a row with an unbalanced quote
C6_Witness ==
    /\ result.op = "parseCSV"
    /\ ~result.threw
    /\ Len(employees) >= 2
    /\ \E j \in 1..Len(DataLines(csvText)) :
          Len(parseCSVLine(DataLines(csvText)[j])) < Len(csvHeaders(csvText))
    /\ \E j \in 1..Len(DataLines(csvText)) :
          QuotesBefore(DataLines(csvText)[j], Len(DataLines(csvText)[j]) + 1) % 2 = 1

----------------------------------------------------------------------------
(* Properties of the Dashboard, under Spec *)

\* C7: whenever retrieval of the text fails (the fetch rejects, or the server
\* answers with a non-success response), the Dashboard ends in the error
\* state with the failure message and the Retry button, and shows no metrics
\* computed from the response body.
C7_FailedRetrievalShowsError ==
    (pc = "settled" /\ response \in {"rejected", "notok"}) =>
        /\ Truthy(error)
        /\ RenderOutput.view = "error"

----------------------------------------------------------------------------
(* Properties of the analytics operations, under SpecAnalytics and SpecTop *)

ZeroMetrics ==
    [ totalEmployees |-> Num(0), activeEmployees |-> Num(0),
      averagePerformance |-> Num(0), turnoverRate |-> Num(0),
      averageTenure |-> Num(0), averageEngagement |-> Num(0),
      highPerformers |-> Num(0) ]

\* C8: on the empty record sequence calculateDashboardMetrics returns seven
\* zeros and the other five operations return the empty sequence; none
\* raises an error and no number is NaN.
C8_EmptySequence ==
    (employees = <<>> /\ result.op \in AnalyticsOps) =>
        /\ ~result.threw
        /\ IF result.op = "calculateDashboardMetrics"
           THEN result.value = ZeroMetrics
           ELSE result.value = <<>>

C8_Witness ==
    /\ employees = <<>>
    /\ result.op = "calculateDashboardMetrics"
    /\ result.value.turnoverRate = Num(0)
    /\ result.value.averagePerformance = Num(0)

KnownAt(emps, i) ==
    IsStr(emps[i].PerformanceCategory) /\ emps[i].PerformanceCategory.s \in Labels
PositiveEngagementAt(emps, i) ==
    IsNum(emps[i].OverallEngagement) /\ emps[i].OverallEngagement.n > 0
TenureAt(emps, i) ==
    IsNum(emps[i].TenureYears) /\ emps[i].TenureYears.n >= 0

\* C9: for every record sequence every average and rate of
\* calculateDashboardMetrics and calculateDepartmentStats is a finite number,
\* and is 0 whenever its filtered subset is empty.
C9_AveragesFiniteZeroOnEmpty ==
    LET all == 1..Len(employees) IN
    /\ result.op = "calculateDashboardMetrics" =>
        LET m == result.value IN
        /\ \A f \in {"averagePerformance", "turnoverRate", "averageTenure",
                     "averageEngagement"} : IsFinite(m[f])
        /\ {i \in all : KnownAt(employees, i)} = {} => m.averagePerformance = Num(0)
        /\ {i \in all : PositiveEngagementAt(employees, i)} = {}
              => m.averageEngagement = Num(0)
        /\ {i \in all : TenureAt(employees, i)} = {} => m.averageTenure = Num(0)
        /\ all = {} => m.turnoverRate = Num(0)
    /\ result.op = "calculateDepartmentStats" =>
        \A k \in 1..Len(result.value) :
            LET e == result.value[k]
                act == ActiveIn(employees, e.department)
            IN  /\ \A f \in {"averagePerformance", "averageSalary",
                             "averageEngagement", "turnoverRate"} : IsFinite(e[f])
                /\ act = {} => e.averageSalary = Num(0)
                /\ {i \in act : KnownAt(employees, i)} = {} => e.averagePerformance = Num(0)
                /\ {i \in act : PositiveEngagementAt(employees, i)} = {}
                      => e.averageEngagement = Num(0)

LabelScore(category) ==
    CASE category.s = <<"Exceeds">> -> 5
      [] category.s = <<"Fully Meets">> -> 4
      [] category.s = <<"Needs Improvement">> -> 3
      [] category.s = <<"PIP">> -> 2

\* the Active records with a known category, by position
Qualifying(emps) ==
    {i \in 1..Len(emps) : emps[i].Status = Active /\ KnownAt(emps, i)}

\* the place of record i among the qualifying ones: behind every record of a
\* higher score and every earlier record of the same score
PlaceOf(emps, i) ==
    Cardinality({j \in Qualifying(emps) :
        \/ LabelScore(emps[j].PerformanceCategory) > LabelScore(emps[i].PerformanceCategory)
        \/ /\ LabelScore(emps[j].PerformanceCategory) = LabelScore(emps[i].PerformanceCategory)
           /\ j < i}) + 1

\* C10: getTopPerformers(records, limit) returns the Active records with a
\* known category in descending score, equal scores in input order, cut to
\* the first limit records: the result is always a prefix of that ordering,
\* and for limit >= 0 the prefix of min(limit, number qualifying) records.
C10_TopPerformersOrdered ==
    result.op = "getTopPerformers" =>
        LET out == result.value
            q == Qualifying(employees)
        IN  /\ ~result.threw
            /\ limit >= 0 =>
                  Len(out) = (IF limit < Cardinality(q) THEN limit ELSE Cardinality(q))
            /\ \A k \in 1..Len(out) :
                  \E i \in q : PlaceOf(employees, i) = k /\ out[k] = employees[i]

----------------------------------------------------------------------------
(* Properties of the aggregates, under SpecAnalytics *)

\* the positions of the Active records
ActiveAt(emps) == {i \in 1..Len(emps) : emps[i].Status = Active}

\* C11: calculateDashboardMetrics returns turnoverRate =
\* (totalEmployees - activeEmployees) / totalEmployees * 100 for a non-empty
\* sequence and 0 for the empty one, totalEmployees being the length of the
\* sequence and activeEmployees the number of records with Status Active.
C11_TurnoverRate ==
    result.op = "calculateDashboardMetrics" =>
        LET total == Len(employees)
            active == Cardinality(ActiveAt(employees))
        IN  /\ result.value.totalEmployees = Num(total)
            /\ result.value.activeEmployees = Num(active)
            /\ result.value.turnoverRate
                  = (IF total = 0 THEN Num(0) ELSE Rat((total - active) * 100, total))

\* ten records of which seven are Active give 30
C11_Witness ==
    /\ result.op = "calculateDashboardMetrics"
    /\ Len(employees) = 10
    /\ Cardinality(ActiveAt(employees)) = 7
    /\ result.value.turnoverRate = Num(30)

\* a department that is null, empty or white space only
BlankDepartment(d) == d = Null \/ (IsStr(d) /\ Trim(d.s) = <<>>)

\* the distinct non-blank department values of the records
NamedDepartments(emps) ==
    {emps[i].Department : i \in {j \in 1..Len(emps) : ~BlankDepartment(emps[j].Department)}}

\* C12: a record whose department is null, empty or white space only creates
\* no entry of calculateDepartmentStats and is counted in no entry, but is
\* counted in totalEmployees (and, when Active, activeEmployees) of
\* calculateDashboardMetrics; every distinct non-blank department value has
\* exactly one entry.
C12_BlankDepartmentNoEntry ==
    /\ result.op = "calculateDepartmentStats" =>
        LET out == result.value
            named == NamedDepartments(employees)
        IN  /\ ~result.threw
            /\ \A d \in named :
                  Cardinality({k \in 1..Len(out) : out[k].department = d}) = 1
            /\ \A k \in 1..Len(out) :
                  /\ out[k].department \in named
                  /\ out[k].employeeCount
                        = Num(Cardinality({i \in ActiveAt(employees) :
                                employees[i].Department = out[k].department}))
    /\ result.op = "calculateDashboardMetrics" =>
        /\ result.value.totalEmployees.n
              >= Cardinality({i \in 1..Len(employees) :
                                BlankDepartment(employees[i].Department)})
        /\ result.value.totalEmployees = Num(Len(employees))
        /\ result.value.activeEmployees = Num(Cardinality(ActiveAt(employees)))

\* records with a null, an empty and a white-space department among records
\* of a named department: one entry, counting the named record only
C12_Witness ==
    /\ result.op = "calculateDepartmentStats"
    /\ Len(employees) = 3
    /\ \E i \in ActiveAt(employees) :
          IsStr(employees[i].Department) /\ BlankDepartment(employees[i].Department)
    /\ \E i \in 1..Len(employees) : employees[i].Department = Null
    /\ Len(result.value) = 1
    /\ result.value[1].employeeCount = Num(1)

\* the positions of the records with a qualifying category: text that is not
\* blank and is not the text null or undefined
QualifyingCategoryAt(emps) ==
    {i \in 1..Len(emps) :
        LET c == emps[i].PerformanceCategory
        IN  /\ IsStr(c)
            /\ Trim(c.s) # <<>>
            /\ c.s # <<"null">>
            /\ c.s # <<"undefined">>}

\* C15: whenever calculatePerformanceDistribution returns a non-empty
\* sequence, the percentages of its entries sum to 100 and the counts of its
\* entries sum to the number of records with a qualifying category.
C15_DistributionSums ==
    (result.op = "calculatePerformanceDistribution" /\ ~result.threw
        /\ result.value # <<>>) =>
        LET out == result.value
        IN  /\ SumValues([k \in 1..Len(out) |-> out[k].percentage]) = Num(100)
            /\ SumValues([k \in 1..Len(out) |-> out[k].count])
                  = Num(Cardinality(QualifyingCategoryAt(employees)))

\* two categories among three records, one of which has the category null
C15_Witness ==
    /\ result.op = "calculatePerformanceDistribution"
    /\ Len(employees) = 3
    /\ \E i \in 1..3 : employees[i].PerformanceCategory = Str(<<"null">>)
    /\ Len(result.value) = 2
    /\ result.value[1].percentage = Num(50)
    /\ result.value[2].percentage = Num(50)

----------------------------------------------------------------------------
(* Properties of the parser, continued, under SpecParse *)

\* C13: parseCSV returns exactly one record for each data row whose
\* identifier is non-blank after trimming, in the order of the rows, and none
\* for a row whose identifier is empty or white space only; rows repeating an
\* identifier are all kept and all counted by the analytics operations.
C13_OneRecordPerIdentifiedRow ==
    /\ pc = "ready" =>
        LET kept == KeptLines(csvText)
            col == ColumnOf(csvText, "EmpID")
        IN  /\ Len(employees) = Len(kept)
            /\ \A i \in 1..Len(employees) :
                  /\ employees[i].EmployeeID = Str(CellText(kept[i], col))
                  /\ Trim(employees[i].EmployeeID.s) # <<>>
    /\ (pc = "done" /\ result.op = "calculateDashboardMetrics") =>
        result.value.totalEmployees = Num(Len(KeptLines(csvText)))

\* three data rows, two of them the same row and one with a blank
\* identifier: two records with the same identifier, both counted
C13_Witness ==
    /\ pc = "done"
    /\ result.op = "calculateDashboardMetrics"
    /\ Len(DataLines(csvText)) = 3
    /\ Len(employees) = 2
    /\ employees[1].EmployeeID = employees[2].EmployeeID
    /\ result.value.totalEmployees = Num(2)

----------------------------------------------------------------------------
(* Properties of repeated calls, under SpecCalls *)

\* what the operation named name may return for the sequence emps
ResultsOf(name, emps, lim) ==
    LET returns ==
        CASE name = "calculateDashboardMetrics" -> {calculateDashboardMetrics(emps)}
          [] name = "calculateDepartmentStats" -> {calculateDepartmentStats(emps)}
          [] name = "calculatePerformanceDistribution" ->
                 {calculatePerformanceDistribution(emps)}
          [] name = "getTopPerformers" -> getTopPerformers(emps, lim)
          [] name = "getPerformanceByTenure" -> {getPerformanceByTenure(emps)}
          [] name = "getSatisfactionPerformanceCorrelation" ->
                 {getSatisfactionPerformanceCorrelation(emps)}
    IN  {Returned(name, r) : r \in returns}

\* C14: no analytics operation changes the record sequence it is given or a
\* record in it, and what a call returns is the operation's result for that
\* sequence whatever calls came before it.
C14_InputUnchanged ==
    [][ /\ employees' = employees
        /\ pc' = "done" => result' \in ResultsOf(result'.op, employees, limit) ]_vars

\* getTopPerformers returned the second record before the first while the
\* caller's records still stand in the order they were given in
C14_Witness ==
    /\ pc = "ready"
    /\ result.op = "getTopPerformers"
    /\ Len(employees) = 3
    /\ \A i \in 1..3 : employees[i].FullName = Str(<<"N", Digits[i + 1]>>)
    /\ Len(result.value) >= 2
    /\ result.value[1] = employees[2]
    /\ result.value[2] = employees[1]

----------------------------------------------------------------------------
(* Properties of the Dashboard, continued, under Spec *)

\* C16: the department statistics, the performance distribution and the
\* top-performers table the Dashboard displays are the results of
\* calculateDepartmentStats, calculatePerformanceDistribution and
\* getTopPerformers for the records loaded by parseCSV, and the displayed
\* average performance is the averagePerformance of calculateDashboardMetrics.
C16_DisplayedAreComputed ==
    (result.op = "render" /\ result.value.view = "dashboard") =>
        LET shown == result.value
        IN  /\ shown.departmentStats = calculateDepartmentStats(employees).value
            /\ [k \in 1..Len(shown.performanceDistribution) |->
                    [ category |-> shown.performanceDistribution[k].category,
                      count |-> shown.performanceDistribution[k].count ]]
                  = [k \in 1..Len(calculatePerformanceDistribution(employees).value) |->
                    [ category |-> calculatePerformanceDistribution(employees).value[k].category,
                      count |-> calculatePerformanceDistribution(employees).value[k].count ]]
            /\ \E lim \in 0..DefaultLimit :
                  \E r \in getTopPerformers(employees, lim) : shown.topPerformers = r.value
            /\ shown.averagePerformance
                  = formatNumber(calculateDashboardMetrics(employees).value.averagePerformance)

----------------------------------------------------------------------------
(* Properties of the aggregates, continued, under SpecAnalytics *)

RECURSIVE LabelScoreSum(_, _)
LabelScoreSum(emps, S) ==
    IF S = {} THEN 0
    ELSE LET i == CHOOSE x \in S : TRUE
         IN  LabelScore(emps[i].PerformanceCategory) + LabelScoreSum(emps, S \ {i})

\* C17: calculateDashboardMetrics returns averagePerformance equal to the
\* mean of the ordinal scores over exactly the records whose category is one
\* of the four labels (0 if there is none), and highPerformers equal to the
\* number of records whose category is Exceeds or Fully Meets; a record with
\* any other, blank or missing category contributes to neither and is still
\* counted in totalEmployees.
C17_AveragePerformanceOverLabels ==
    result.op = "calculateDashboardMetrics" =>
        LET known == {i \in 1..Len(employees) : KnownAt(employees, i)}
            high == {i \in known :
                        employees[i].PerformanceCategory.s
                            \in {<<"Exceeds">>, <<"Fully Meets">>}}
        IN  /\ result.value.averagePerformance
                  = MeanOrZero(LabelScoreSum(employees, known), Cardinality(known))
            /\ result.value.highPerformers = Num(Cardinality(high))
            /\ result.value.totalEmployees = Num(Len(employees))

----------------------------------------------------------------------------
(* Properties of the raw values, under SpecParse *)

\* the text is a numeral: an optional sign, then digits and nothing else
IsNumeral(cell) ==
    LET body == IF cell # <<>> /\ Head(cell) = MINUS THEN Tail(cell) ELSE cell
    IN  body # <<>> /\ \A k \in 1..Len(body) : body[k] \in DigitSet

RECURSIVE DigitsValue(_)
DigitsValue(body) ==
    IF body = <<>> THEN 0
    ELSE 10 * DigitsValue(SubSeq(body, 1, Len(body) - 1)) + DigitValue(body[Len(body)])

\* the number a numeral denotes
NumeralValue(cell) ==
    IF Head(cell) = MINUS THEN Num(-DigitsValue(Tail(cell))) ELSE Num(DigitsValue(cell))

\* C18: under a header of the known-numeric set the raw value is the number
\* the field text denotes, and null when the text is empty or denotes no
\* number, never a string; under every other header it is the trimmed field
\* text, or null when that text is empty.
C18_RawValues ==
    pc = "ready" =>
        LET kept == KeptLines(csvText)
            Cell(i, key) == CellText(kept[i], ColumnOf(csvText, key))
        IN  \A i \in 1..Len(employees) :
            /\ \A key \in {"Salary", "PerformanceScore", "EngagementSurvey"} :
                  ColumnOf(csvText, key) # 0 =>
                      employees[i][key]
                          = (IF IsNumeral(Cell(i, key)) THEN NumeralValue(Cell(i, key))
                             ELSE Null)
            /\ \A key \in {"DateofHire", "Department", "EmpID"} :
                  ColumnOf(csvText, key) # 0 =>
                      employees[i][key]
                          = (IF Cell(i, key) = <<>> THEN Null ELSE Str(Cell(i, key)))

----------------------------------------------------------------------------
(* Properties of the department entries, under SpecAnalytics *)

\* the positions of the records of a department
InDepartment(emps, dept) == {i \in 1..Len(emps) : emps[i].Department = dept}

\* the sequence without the records of the department that are not Active
WithoutInactiveOf(emps, dept) ==
    LET Stays(emp) == emp.Department # dept \/ emp.Status = Active
    IN  SelectSeq(emps, Stays)

\* C19: in each department entry employeeCount, averagePerformance,
\* averageSalary and averageEngagement are computed over the department's
\* Active records only (taking the other records of the department away
\* changes none of them), turnoverRate is (all - Active) / all * 100 over the
\* records of the department, and a department whose records are all
\* Terminated has an entry with employeeCount 0 and turnoverRate 100.
C19_DepartmentOverActive ==
    result.op = "calculateDepartmentStats" =>
        /\ \A k \in 1..Len(result.value) :
            LET e == result.value[k]
                all == InDepartment(employees, e.department)
                act == all \cap ActiveAt(employees)
                activeOnly == departmentEntry(WithoutInactiveOf(employees, e.department),
                                              e.department)
            IN  /\ e.employeeCount = Num(Cardinality(act))
                /\ \A f \in {"employeeCount", "averagePerformance", "averageSalary",
                             "averageEngagement"} : e[f] = activeOnly[f]
                /\ e.turnoverRate
                      = Rat((Cardinality(all) - Cardinality(act)) * 100, Cardinality(all))
        /\ \A d \in NamedDepartments(employees) :
              InDepartment(employees, d) \cap ActiveAt(employees) = {} =>
                  \E k \in 1..Len(result.value) :
                      /\ result.value[k].department = d
                      /\ result.value[k].employeeCount = Num(0)
                      /\ result.value[k].turnoverRate = Num(100)

\* one department with an Active and a Terminated record, another whose
\* records are all Terminated
C19_Witness ==
    /\ result.op = "calculateDepartmentStats"
    /\ Len(result.value) = 2
    /\ result.value[1].employeeCount = Num(1)
    /\ result.value[1].turnoverRate = Num(50)
    /\ result.value[2].employeeCount = Num(0)
    /\ result.value[2].turnoverRate = Num(100)

RECURSIVE CurrentSalarySum(_, _)
CurrentSalarySum(emps, S) ==
    IF S = {} THEN 0
    ELSE LET i == CHOOSE x \in S : TRUE
         IN  (IF IsNum(emps[i].CurrentSalary) THEN emps[i].CurrentSalary.n ELSE 0)
                 + CurrentSalarySum(emps, S \ {i})

\* C20: averageSalary of a department is the sum of the salaries of its
\* Active records divided by the number of its Active records; an Active
\* record with null salary adds 0 to the sum and is counted in the
\* denominator.
C20_AverageSalary ==
    result.op = "calculateDepartmentStats" =>
        \A k \in 1..Len(result.value) :
            LET act == InDepartment(employees, result.value[k].department)
                           \cap ActiveAt(employees)
            IN  result.value[k].averageSalary
                    = MeanOrZero(CurrentSalarySum(employees, act), Cardinality(act))

\* a department with two Active records, one with salary 70000 and one with
\* null salary: averageSalary 35000
C20_Witness ==
    /\ result.op = "calculateDepartmentStats"
    /\ Len(employees) = 2
    /\ \A i \in 1..2 : IsActive(employees[i]) /\ employees[i].Department = IT
    /\ {employees[i].CurrentSalary : i \in 1..2} = {Num(70000), Null}
    /\ Len(result.value) = 1
    /\ result.value[1].averageSalary = Num(35000)

----------------------------------------------------------------------------
(* Properties of the engagement averages, under SpecAnalytics *)

\* C21: averageEngagement of calculateDashboardMetrics is the mean of the
\* engagement score over exactly the records whose engagement is non-null and
\* strictly greater than 0, and averageEngagement of a department entry is
\* that mean over the department's Active records of that kind: a record with
\* engagement 0 is in neither the sum nor the denominator.
C21_AverageEngagementPositiveOnly ==
    /\ result.op = "calculateDashboardMetrics" =>
        LET with == {i \in 1..Len(employees) : PositiveEngagementAt(employees, i)}
        IN  result.value.averageEngagement
                = MeanOrZero(EngagementSum(employees, with), Cardinality(with))
    /\ result.op = "calculateDepartmentStats" =>
        \A k \in 1..Len(result.value) :
            LET with == {i \in ActiveIn(employees, result.value[k].department) :
                            PositiveEngagementAt(employees, i)}
            IN  result.value[k].averageEngagement
                    = MeanOrZero(EngagementSum(employees, with), Cardinality(with))

\* two records, one with engagement 0 and one with engagement 4: the average
\* is 4, not 2
C21_Witness ==
    /\ result.op = "calculateDashboardMetrics"
    /\ Len(employees) = 2
    /\ {employees[i].OverallEngagement : i \in 1..2} = {Num(0), Num(4)}
    /\ result.value.averageEngagement = Num(4)

----------------------------------------------------------------------------
(* Properties of the performance distribution, continued, under SpecAnalytics *)

\* the colour the table gives a label, the default grey for any other text
TableColor(category) ==
    CASE category.s = <<"Fully Meets">> -> "#70ad47"
      [] category.s = <<"Exceeds">> -> "#4CAF50"
      [] category.s = <<"Needs Improvement">> -> "#ff9900"
      [] category.s = <<"PIP">> -> "#c5504b"
      [] OTHER -> "#6B7280"

\* C22: calculatePerformanceDistribution returns exactly one entry for each
\* distinct category string among the qualifying records, known label or
\* not, with the number of qualifying records carrying it as count, the
\* colour of the table or the default grey for a label not in the table, in
\* descending order of count, no entry with count 0, and the empty sequence
\* when no record qualifies.
C22_DistributionEntries ==
    result.op = "calculatePerformanceDistribution" =>
        LET out == result.value
            q == QualifyingCategoryAt(employees)
            cats == {employees[i].PerformanceCategory : i \in q}
        IN  /\ ~result.threw
            /\ q = {} => out = <<>>
            /\ Len(out) = Cardinality(cats)
            /\ {out[k].category : k \in 1..Len(out)} = cats
            /\ \A k \in 1..Len(out) :
                  /\ out[k].count
                        = Num(Cardinality({i \in q :
                              employees[i].PerformanceCategory = out[k].category}))
                  /\ out[k].count.n > 0
                  /\ out[k].color = TableColor(out[k].category)
            /\ \A k \in 1..Len(out) - 1 : out[k].count.n >= out[k + 1].count.n

----------------------------------------------------------------------------
(* Properties of the two projections, under SpecAnalytics *)

\* the k-th position of a set of positions, counting from 1
NthOf(S, k) == CHOOSE i \in S : Cardinality({j \in S : j < i}) = k - 1

\* C23: getPerformanceByTenure returns, in input order, exactly one entry
\* {name, tenure, performance, salary, department} for each record with
\* non-null tenure and a known category, and
\* getSatisfactionPerformanceCorrelation returns, in input order, exactly one
\* entry {name, satisfaction, performance, tenure, department} for each record
\* with non-null engagement and a known category; performance is the ordinal
\* score of the category, and Terminated records are included.
C23_OneEntryPerQualifyingRecord ==
    /\ result.op = "getPerformanceByTenure" =>
        LET S == {i \in 1..Len(employees) :
                    employees[i].TenureYears # Null /\ KnownAt(employees, i)}
        IN  result.value = [k \in 1..Cardinality(S) |->
              LET emp == employees[NthOf(S, k)]
              IN  [ name |-> emp.FullName,
                    tenure |-> emp.TenureYears,
                    performance |-> Num(LabelScore(emp.PerformanceCategory)),
                    salary |-> emp.CurrentSalary,
                    department |-> emp.Department ]]
    /\ result.op = "getSatisfactionPerformanceCorrelation" =>
        LET S == {i \in 1..Len(employees) :
                    employees[i].OverallEngagement # Null /\ KnownAt(employees, i)}
        IN  result.value = [k \in 1..Cardinality(S) |->
              LET emp == employees[NthOf(S, k)]
              IN  [ name |-> emp.FullName,
                    satisfaction |-> emp.OverallEngagement,
                    performance |-> Num(LabelScore(emp.PerformanceCategory)),
                    tenure |-> emp.TenureYears,
                    department |-> emp.Department ]]

----------------------------------------------------------------------------
(* Properties of the department entries, continued, under SpecAnalytics *)

\* C24: the sequence calculateDepartmentStats returns is in descending order
\* of employeeCount: of every two adjacent entries the earlier one has
\* employeeCount greater than or equal to the later one.
C24_DepartmentsDescending ==
    result.op = "calculateDepartmentStats" =>
        \A k \in 1..Len(result.value) - 1 :
            result.value[k].employeeCount.n >= result.value[k + 1].employeeCount.n

\* the department of the first record has fewer Active records than a later
\* one and comes second in the result
C24_Witness ==
    /\ result.op = "calculateDepartmentStats"
    /\ Len(result.value) = 2
    /\ employees[1].Department = result.value[2].department
    /\ result.value[1].employeeCount.n > result.value[2].employeeCount.n

----------------------------------------------------------------------------
(* Properties of the parser, continued, under SpecParse *)

\* the data rows whose cell under the header EmpID is not blank, by position
IdentifiedRows(text) ==
    {j \in 1..Len(DataLines(text)) :
        CellText(DataLines(text)[j], ColumnOf(text, "EmpID")) # <<>>}

\* C25: parseCSV keeps a data row exactly when its value under the header
\* EmpID is non-blank; the EmployeeID of the record is that value, a column
\* named EmployeeID does not decide whether the row is kept, and a text whose
\* header has no EmpID column gives the empty record sequence.
C25_EmpIDColumnDecides ==
    pc = "ready" =>
        LET col == ColumnOf(csvText, "EmpID")
            rows == IdentifiedRows(csvText)
        IN  /\ Len(employees) = Cardinality(rows)
            /\ \A k \in 1..Len(employees) :
                  employees[k].EmployeeID
                      = Str(CellText(DataLines(csvText)[NthOf(rows, k)], col))
            /\ col = 0 => employees = <<>>

\* a header with both columns and a row whose EmployeeID cell is empty and
\* whose EmpID cell is not: the row is kept
C25_Witness ==
    /\ pc = "ready"
    /\ ColumnOf(csvText, "EmployeeID") # 0
    /\ ColumnOf(csvText, "EmpID") # 0
    /\ Len(DataLines(csvText)) = 1
    /\ CellText(DataLines(csvText)[1], ColumnOf(csvText, "EmployeeID")) = <<>>
    /\ Len(employees) = 1
    /\ employees[1].EmployeeID = Str(<<"E6">>)

----------------------------------------------------------------------------
(* Properties of getTopPerformers, continued, under SpecTop *)

\* C26: for every integer limit, 0 and negative values included,
\* getTopPerformers(records, limit) returns at most max(limit, 0) records;
\* for limit >= 0 it returns exactly min(limit, q) records, q the number of
\* Active records with a known category, and every returned record has an
\* ordinal score greater than or equal to that of every qualifying record
\* not returned.
C26_AtMostLimit ==
    result.op = "getTopPerformers" =>
        LET out == result.value
            q == Qualifying(employees)
            returned == {out[k] : k \in 1..Len(out)}
        IN  /\ Len(out) <= (IF limit > 0 THEN limit ELSE 0)
            /\ limit >= 0 =>
                  Len(out) = (IF limit < Cardinality(q) THEN limit ELSE Cardinality(q))
            /\ \A k \in 1..Len(out) :
                  /\ out[k].PerformanceCategory.s \in Labels
                  /\ \A i \in q : employees[i] \notin returned =>
                        LabelScore(out[k].PerformanceCategory)
                            >= LabelScore(employees[i].PerformanceCategory)

----------------------------------------------------------------------------
(* Properties of the KPI cards, under Spec *)

\* C27: whenever the Dashboard renders the KPI cards (loading finished and no
\* error), the retention percentage of the Active Employees card,
\* activeEmployees / totalEmployees * 100, is a finite number between 0 and
\* 100, also when the loaded record set is empty.
C27_RetentionFinite ==
    (result.op = "render" /\ result.value.view = "dashboard") =>
        LET shown == result.value.retention
        IN  /\ IsFinite(shown)
            /\ 0 <= shown.n
            /\ shown.n <= 100 * shown.d

----------------------------------------------------------------------------
(* Ranges of the dashboard metrics, under SpecAnalytics *)

\* v is a number between lo and hi
Between(v, lo, hi) == IsNum(v) /\ lo * v.d <= v.n /\ v.n <= hi * v.d

\* C28: for every record sequence calculateDashboardMetrics returns
\* 0 <= activeEmployees <= totalEmployees, 0 <= turnoverRate <= 100,
\* 0 <= highPerformers <= totalEmployees, averagePerformance 0 or between 2
\* and 5, and averageTenure >= 0; averagePerformance is 0 exactly when
\* highPerformers is 0 and no record has category Needs Improvement or PIP.
C28_MetricRanges ==
    result.op = "calculateDashboardMetrics" =>
        LET m == result.value
            total == Len(employees)
            lower == {i \in 1..total :
                        employees[i].PerformanceCategory
                            \in {Str(<<"Needs Improvement">>), Str(<<"PIP">>)}}
        IN  /\ Between(m.activeEmployees, 0, total)
            /\ Between(m.turnoverRate, 0, 100)
            /\ Between(m.highPerformers, 0, total)
            /\ m.averagePerformance = Num(0) \/ Between(m.averagePerformance, 2, 5)
            /\ IsNum(m.averageTenure) /\ m.averageTenure.n >= 0
            /\ m.averagePerformance = Num(0)
                  <=> (m.highPerformers = Num(0) /\ lower = {})

----------------------------------------------------------------------------
(* The department entries and the metrics of one sequence, under SpecAnalytics *)

\* the Active records with a non-blank department, by position
ActiveNamedAt(emps) ==
    {i \in ActiveAt(emps) : ~BlankDepartment(emps[i].Department)}

\* C29: for every record sequence the sum of employeeCount over the entries
\* of calculateDepartmentStats is the number of Active records with a
\* non-blank department; it never exceeds activeEmployees of
\* calculateDashboardMetrics for the same sequence, and equals it exactly
\* when no Active record has a blank department.
C29_HeadcountSum ==
    result.op = "calculateDepartmentStats" =>
        LET out == result.value
            sum == SumValues([k \in 1..Len(out) |-> out[k].employeeCount])
            activeEmployees == calculateDashboardMetrics(employees).value.activeEmployees
        IN  /\ sum = Num(Cardinality(ActiveNamedAt(employees)))
            /\ sum.n <= activeEmployees.n
            /\ sum = activeEmployees
                  <=> ActiveNamedAt(employees) = ActiveAt(employees)

\* two departments with an Active record each and an Active record with a
\* blank department: the counts sum to 2, activeEmployees is 3
C29_Witness ==
    /\ result.op = "calculateDepartmentStats"
    /\ Len(result.value) = 2
    /\ result.value[1].employeeCount = Num(1)
    /\ result.value[2].employeeCount = Num(1)
    /\ Cardinality(ActiveAt(employees)) = 3

----------------------------------------------------------------------------
(* The load lifecycle of the Dashboard, under SpecLifecycle *)

\* a lifecycle starts: the first mount, or the mount after the page reload
Starts == pc = "mounted"

\* the steps of one lifecycle: the fetch is issued at the mount only, loading
\* does not become true again, the error is set only by a step of the fetch
\* or of the parse that raised and leaves the record set alone, and the
\* record set is replaced only by the result of a parse that did not raise,
\* with no error
LifecycleStep ==
    /\ (pc # "fetching" /\ pc' = "fetching") => Starts
    /\ (~loading /\ loading') => Starts'
    /\ (error' # error /\ ~Starts') =>
          /\ pc \in {"fetching", "response"}
          /\ pc = "fetching" => response' = "rejected"
          /\ error' = FailedToLoad
          /\ employees' = employees
    /\ (employees' # employees /\ ~Starts') =>
          /\ pc = "response"
          /\ ~parseCSV(csvText).threw
          /\ employees' = parseCSV(csvText).value
          /\ error' = Null

\* C30: the Dashboard starts loading, with an empty record set and no error,
\* and issues one fetch; once the fetch attempt has settled loading becomes
\* false and does not become true again; the error is set only when fetching
\* or parsing raised and the record set is replaced only when they did not,
\* so a non-empty record set and an error are never present together; no
\* metrics are rendered while loading is true.
C30_LoadLifecycle ==
    /\ [](Starts => (loading /\ employees = <<>> /\ error = Null))
    /\ [][LifecycleStep]_vars
    /\ [](pc = "settled" => ~loading)
    /\ [](~(employees # <<>> /\ Truthy(error)))
    /\ []((result.op = "render" /\ loading) => result.value.metrics = <<>>)
    /\ [](pc = "finally" => <>(~loading))

\* a load that succeeded: settled, records, no error, the dashboard rendered
C30_Witness ==
    /\ pc = "settled"
    /\ ~loading
    /\ employees # <<>>
    /\ error = Null
    /\ result.op = "render"
    /\ result.value.view = "dashboard"

====
